---- MODULE Spec2Model ----
(***************************************************************************)
(* Salary-balance ledger and advance-approval engine of the Salary-system  *)
(* backend: the persisted rows (employee, bill, advance, salary_payment),  *)
(* the HTTP handlers of main.py and the service functions of app/services. *)
(*                                                                         *)
(* Money amounts are modelled as integers (whole currency units); the      *)
(* Float columns of the schema carry no rounding in the model.  Text       *)
(* columns are sequences of tokens, Optional values are records with a     *)
(* "some" flag.  Free-text fields that no handler inspects (reason, names, *)
(* payment notes, payment_date) are left out of the rows.                  *)
(*                                                                         *)
(* Every handler is an operator from the persisted state and the request   *)
(* to an Outcome: the state it leaves, the error it raised ("ok" when it   *)
(* returned normally) and the value it returned.  The action of a handler  *)
(* writes the state of its Outcome; the response goes to the caller.       *)
(***************************************************************************)
EXTENDS Integers, Sequences, FiniteSets, TLC

VARIABLES employees, bills, advances, payments, reqs, off_days, today,
          last_counted, job

vars ==
    <<employees, bills, advances, payments, reqs, off_days, today,
      last_counted, job>>

----------------------------------------------------------------------------
(* Bounds of the model *)

MaxBills == 1
MaxAdvances == 2
MaxPayments == 1
MaxLedgerAdvances == 1
MaxAmount == 2
MaxTime == 1
NumRequests == 2
MaxOffDays == 2
MaxSweepOffDays == 1
MaxDate == 4
MaxWorked == 2
DaysPerMonth == 2
MonthsPerYear == 2

Amounts == 1..MaxAmount
Times == 1..MaxTime
Requests == 1..NumRequests

----------------------------------------------------------------------------
(* The calendar.  A date is a day number counted from the day the first   *)
(* employee was onboarded (date 0, the 1st of month 1 of year 0); months  *)
(* have DaysPerMonth days and years MonthsPerYear months.  A timestamp    *)
(* (updated_at, approved_at) holds the date it was taken on: no handler   *)
(* reads more of a timestamp than its date.                               *)

Dates == 0..MaxDate

Day(d) == (d % DaysPerMonth) + 1

Month(d) == ((d \div DaysPerMonth) % MonthsPerYear) + 1

Year(d) == d \div (DaysPerMonth * MonthsPerYear)

DayCounts == 1..2

OffDayStatus == {"pending", "approved", "denied"}

----------------------------------------------------------------------------
(* Optional values (Python None / a value) *)

None == [some |-> FALSE, val |-> <<>>]
Some(v) == [some |-> TRUE, val |-> v]

(* Python truthiness of an Optional[str]: None and "" are falsy. *)
Truthy(o) == o.some /\ o.val # <<>>

(* The notes an admin may send: absent, empty, or a text. *)
NotesInputs == {None, Some(<<>>), Some(<<"ok">>)}

(* str.strip(): drop leading and trailing blanks. *)
RECURSIVE LStrip(_)
LStrip(s) == IF s # <<>> /\ Head(s) = " " THEN LStrip(Tail(s)) ELSE s

RECURSIVE RStrip(_)
RStrip(s) ==
    IF s # <<>> /\ s[Len(s)] = " " THEN RStrip(SubSeq(s, 1, Len(s) - 1)) ELSE s

Strip(s) == RStrip(LStrip(s))

----------------------------------------------------------------------------
(* Rows and outcomes *)

AdvanceStatus == {"pending", "approved", "denied"}

NoOut == [none |-> TRUE]

Idle == [pc |-> "idle"]

Response(op, err, detail) == [op |-> op, err |-> err, detail |-> detail]

(* A call that raised: nothing is written. *)
Fail(op, err, detail) ==
    [employees |-> employees, bills |-> bills, advances |-> advances,
     payments |-> payments, resp |-> Response(op, err, detail), out |-> NoOut]

(* A call that returned normally, leaving the tables emps, bs, as, ps. *)
Done(op, emps, bs, as, ps, out) ==
    [employees |-> emps, bills |-> bs, advances |-> as, payments |-> ps,
     resp |-> Response(op, "ok", <<>>), out |-> out]

(* The transition of a call with outcome r; the tables stay within the    *)
(* bounds of the model.                                                   *)
ApplyTables(r) ==
    /\ Len(r.bills) <= MaxBills
    /\ Len(r.advances) <= MaxAdvances
    /\ Len(r.payments) <= MaxPayments
    /\ employees' = r.employees
    /\ bills' = r.bills
    /\ advances' = r.advances
    /\ payments' = r.payments

Apply(r) ==
    /\ ApplyTables(r)
    /\ UNCHANGED <<reqs, off_days, today, last_counted, job>>

Exists(id) == id \in DOMAIN employees

(* Every employee id, and one id that names no employee. *)
AnyEmployeeId == 1..(Len(employees) + 1)

AdvanceExists(id) == id \in DOMAIN advances

(* Every advance id the model can hold, and one that names none. *)
AnyAdvanceId == 1..(MaxAdvances + 1)

----------------------------------------------------------------------------
(* Ledger Calculator *)

RECURSIVE SumBills(_, _)
SumBills(bs, employee_id) ==
    IF bs = <<>> THEN 0
    ELSE (IF Head(bs).billed_employee_id = employee_id
          THEN Head(bs).amount_billed ELSE 0)
         + SumBills(Tail(bs), employee_id)

(* A sum over the advances of an employee whatever their status. *)
RECURSIVE SumAllAdvances(_, _)
SumAllAdvances(as, employee_id) ==
    IF as = <<>> THEN 0
    ELSE (IF Head(as).employee_id = employee_id
          THEN Head(as).amount_for_advance ELSE 0)
         + SumAllAdvances(Tail(as), employee_id)

RECURSIVE SumApprovedAdvances(_, _)
SumApprovedAdvances(as, employee_id) ==
    IF as = <<>> THEN 0
    ELSE (IF Head(as).employee_id = employee_id /\ Head(as).status = "approved"
          THEN Head(as).amount_for_advance ELSE 0)
         + SumApprovedAdvances(Tail(as), employee_id)

calculate_used_salary_from_transactions(employee_id) ==
    SumBills(bills, employee_id) + SumApprovedAdvances(advances, employee_id)

calculate_remaining_salary(employee_id) ==
    IF ~Exists(employee_id) THEN 0
    ELSE employees[employee_id].salary
         - (SumBills(bills, employee_id)
            + SumApprovedAdvances(advances, employee_id))

Max(a, b) == IF a >= b THEN a ELSE b

----------------------------------------------------------------------------
(* An employee row as created at onboarding (schema defaults). *)
Employee(role, salary, start) ==
    [role |-> role, salary |-> salary, used_salary |-> 0, updated_at |-> 0,
     employment_start_date |-> start, days_worked_this_month |-> 0,
     total_days_worked |-> 0]

(* The state after onboarding a staff member, a manager and an admin; no  *)
(* transactions yet.  The staff member starts work on the day of          *)
(* onboarding, the admin two days later, the manager at a later date.     *)
Init ==
    /\ employees = <<Employee("staff", 3, 0), Employee("manager", 2, 5),
                     Employee("admin", 1, 2)>>
    /\ bills = <<>>
    /\ advances = <<>>
    /\ payments = <<>>
    /\ reqs = [r \in Requests |-> Idle]
    /\ off_days = <<>>
    /\ today = 0
    /\ last_counted = [id \in 1..3 |-> -1]
    /\ job = Idle

----------------------------------------------------------------------------
(* Advance requests *)

NewAdvance(employee_id, amount) ==
    [employee_id |-> employee_id, amount_for_advance |-> amount,
     status |-> "pending", approved_at |-> None, approval_notes |-> None]

AdvanceOut(id, adv) ==
    [id |-> id, employee_id |-> adv.employee_id, status |-> adv.status,
     approved_at |-> adv.approved_at, approval_notes |-> adv.approval_notes]

(* POST /api/advances *)
create_advance(employee_id, amount) ==
    IF ~Exists(employee_id)
    THEN Fail("create_advance", "NotFound", <<"Employee not found.">>)
    ELSE LET remaining_salary == calculate_remaining_salary(employee_id)
             base_salary == employees[employee_id].salary
             current_used == SumBills(bills, employee_id)
                             + SumApprovedAdvances(advances, employee_id)
             new_used == current_used + amount
         IN IF new_used > base_salary
            THEN Fail("create_advance", "BadRequest",
                      <<"would exceed base salary">>)
            ELSE IF remaining_salary <= 0
            THEN Fail("create_advance", "BadRequest",
                      <<"no remaining salary">>)
            ELSE IF amount > remaining_salary
            THEN Fail("create_advance", "BadRequest",
                      <<"exceeds remaining salary">>)
            ELSE Done("create_advance", employees, bills,
                      Append(advances, NewAdvance(employee_id, amount)),
                      payments,
                      [id |-> Len(advances) + 1, status |-> "pending"])

(* advance_service.request_advance *)
request_advance(employee_id, amount) ==
    IF ~Exists(employee_id)
    THEN Fail("request_advance", "ValueError", <<"Employee not found">>)
    ELSE IF employees[employee_id].role \notin {"staff", "manager"}
    THEN Fail("request_advance", "PermissionError",
              <<"Only staff and managers can request advances">>)
    ELSE Done("request_advance", employees, bills,
              Append(advances, NewAdvance(employee_id, amount)), payments,
              AdvanceOut(Len(advances) + 1, NewAdvance(employee_id, amount)))

----------------------------------------------------------------------------
(* Advance approval, HTTP handler PUT /api/advances/{id}/approve *)

Money(label, n) == <<label, "KSH", ToString(n)>>

AutoRejectMsg1(new_used, base_salary, new_remaining) ==
    <<" ", "[AUTO-REJECTED:">>
        \o Money("Would make total used salary", new_used)
        \o Money("exceeding base salary", base_salary)
        \o Money("Remaining would be negative:", new_remaining) \o <<"]">>

AutoRejectMsg2(new_remaining, remaining_salary) ==
    <<" ", "[AUTO-REJECTED:">>
        \o Money("No remaining salary. Would become negative:", new_remaining)
        \o Money("Current remaining:", remaining_salary) \o <<"]">>

AutoRejectMsg3(remaining_salary) ==
    <<" ", "[AUTO-REJECTED:">>
        \o Money("No remaining salary available. Current remaining:",
                 remaining_salary) \o <<"]">>

AutoRejectMsg4(amount, remaining_salary) ==
    <<" ", "[AUTO-REJECTED:">>
        \o Money("Amount", amount)
        \o Money("exceeds remaining salary", remaining_salary) \o <<"]">>

(* (payload.notes + auto_reject_msg) if payload.notes else msg.strip() *)
AutoRejectNotes(notes, auto_reject_msg) ==
    IF Truthy(notes) THEN Some(notes.val \o auto_reject_msg)
    ELSE Some(Strip(auto_reject_msg))

(* A denial that does not stamp approved_at. *)
DeniedUnstamped(adv, t, notes) ==
    [adv EXCEPT !.status = "denied", !.approval_notes = notes]

Denied(adv, t, notes) ==
    [adv EXCEPT !.status = "denied", !.approved_at = Some(t),
                !.approval_notes = notes]

Approved(adv, t, notes) ==
    [adv EXCEPT !.status = "approved", !.approved_at = Some(t),
                !.approval_notes = notes]

(* A handler that decides without the ledger check. *)
HttpDecisionUnchecked(adv, approved, notes, remaining_salary, current_used, base_salary, t) ==
    IF approved THEN Approved(adv, t, notes) ELSE Denied(adv, t, notes)

HttpDecisionStrict(adv, approved, notes, remaining_salary, current_used, base_salary, t) ==
    LET new_used == current_used + adv.amount_for_advance
        new_remaining == base_salary - new_used
    IN IF approved
       THEN IF new_used >= base_salary
            THEN Denied(adv, t, AutoRejectNotes(notes,
                     AutoRejectMsg1(new_used, base_salary, new_remaining)))
            ELSE Approved(adv, t, notes)
       ELSE Denied(adv, t, notes)

(* The decision of the handler, from what it read: the advance row, the   *)
(* remaining salary and the used salary read from the ledger, the base    *)
(* salary, and the request payload.                                       *)
HttpDecision(adv, approved, notes, remaining_salary, current_used, base_salary, t) ==
    LET new_used == current_used + adv.amount_for_advance
        new_remaining == base_salary - new_used
    IN IF approved
       THEN IF new_used > base_salary
            THEN Denied(adv, t, AutoRejectNotes(notes,
                     AutoRejectMsg1(new_used, base_salary, new_remaining)))
            ELSE IF new_remaining < 0
            THEN Denied(adv, t, AutoRejectNotes(notes,
                     AutoRejectMsg2(new_remaining, remaining_salary)))
            ELSE IF remaining_salary <= 0
            THEN Denied(adv, t, AutoRejectNotes(notes,
                     AutoRejectMsg3(remaining_salary)))
            ELSE IF adv.amount_for_advance > remaining_salary
            THEN Denied(adv, t, AutoRejectNotes(notes,
                     AutoRejectMsg4(adv.amount_for_advance, remaining_salary)))
            ELSE Approved(adv, t, notes)
       ELSE Denied(adv, t, notes)

(* A handler that decides an advance whatever its status. *)
HttpApproveAnyStatus(advance_id, approved, notes, t) ==
    IF ~AdvanceExists(advance_id)
    THEN Fail("http_approve_advance", "NotFound", <<"Advance not found.">>)
    ELSE LET adv == advances[advance_id]
             e == adv.employee_id
             decided ==
                 HttpDecision(adv, approved, notes,
                     calculate_remaining_salary(e),
                     SumBills(bills, e) + SumApprovedAdvances(advances, e),
                     employees[e].salary, t)
         IN Done("http_approve_advance", employees, bills,
                 [advances EXCEPT ![advance_id] = decided], payments,
                 AdvanceOut(advance_id, decided))

AlreadyDetail(status) == <<"Advance is already", status>>

http_approve_advance(advance_id, approved, notes, t) ==
    IF ~AdvanceExists(advance_id)
    THEN Fail("http_approve_advance", "NotFound", <<"Advance not found.">>)
    ELSE IF advances[advance_id].status # "pending"
    THEN Fail("http_approve_advance", "BadRequest",
              AlreadyDetail(advances[advance_id].status))
    ELSE LET adv == advances[advance_id]
             e == adv.employee_id
             decided ==
                 HttpDecision(adv, approved, notes,
                     calculate_remaining_salary(e),
                     SumBills(bills, e) + SumApprovedAdvances(advances, e),
                     employees[e].salary, t)
         IN Done("http_approve_advance", employees, bills,
                 [advances EXCEPT ![advance_id] = decided], payments,
                 AdvanceOut(advance_id, decided))

(* advance_service.approve_advance *)
service_approve_advance(advance_id, admin_id, approved, notes, t) ==
    IF ~Exists(admin_id)
    THEN Fail("service_approve_advance", "ValueError", <<"Admin not found">>)
    ELSE IF employees[admin_id].role # "admin"
    THEN Fail("service_approve_advance", "PermissionError",
              <<"Only admins can approve advances">>)
    ELSE IF ~AdvanceExists(advance_id)
    THEN Fail("service_approve_advance", "ValueError",
              <<"Advance request not found">>)
    ELSE IF advances[advance_id].status # "pending"
    THEN Fail("service_approve_advance", "ValueError",
              AlreadyDetail(advances[advance_id].status))
    ELSE LET adv == advances[advance_id]
             decided == IF approved THEN Approved(adv, t, notes)
                        ELSE Denied(adv, t, notes)
         IN Done("service_approve_advance", employees, bills,
                 [advances EXCEPT ![advance_id] = decided], payments,
                 AdvanceOut(advance_id, decided))

----------------------------------------------------------------------------
(* Bills, POST /api/bills *)

(* A bill handler that lets a manager bill themselves. *)
CreateBillSelfAllowed(manager_id, employee_id, amount) ==
    IF ~Exists(manager_id)
    THEN Fail("create_bill", "NotFound", <<"Manager not found.">>)
    ELSE IF employees[manager_id].role \notin {"manager", "admin"}
    THEN Fail("create_bill", "Forbidden",
              <<"Only managers or admins can create bills.">>)
    ELSE IF ~Exists(employee_id)
    THEN Fail("create_bill", "NotFound", <<"Employee to bill not found.">>)
    ELSE Done("create_bill", employees,
              Append(bills, [billed_employee_id |-> employee_id,
                             amount_billed |-> amount,
                             recorded_by_id |-> manager_id]),
              advances, payments,
              [id |-> Len(bills) + 1,
               warning |-> calculate_remaining_salary(employee_id) - amount
                              < 0])

(* A bill handler that refuses a bill that overdraws the salary. *)
CreateBillRefusingOverdraft(manager_id, employee_id, amount) ==
    IF ~Exists(manager_id)
    THEN Fail("create_bill", "NotFound", <<"Manager not found.">>)
    ELSE IF employees[manager_id].role \notin {"manager", "admin"}
    THEN Fail("create_bill", "Forbidden",
              <<"Only managers or admins can create bills.">>)
    ELSE IF ~Exists(employee_id)
    THEN Fail("create_bill", "NotFound", <<"Employee to bill not found.">>)
    ELSE IF employees[manager_id].role = "manager" /\ manager_id = employee_id
    THEN Fail("create_bill", "BadRequest",
              <<"Managers cannot create bills for themselves.">>)
    ELSE IF calculate_remaining_salary(employee_id) - amount < 0
    THEN Fail("create_bill", "BadRequest", <<"exceeds remaining salary">>)
    ELSE Done("create_bill", employees,
              Append(bills, [billed_employee_id |-> employee_id,
                             amount_billed |-> amount,
                             recorded_by_id |-> manager_id]),
              advances, payments,
              [id |-> Len(bills) + 1, warning |-> FALSE])

create_bill(manager_id, employee_id, amount) ==
    IF ~Exists(manager_id)
    THEN Fail("create_bill", "NotFound", <<"Manager not found.">>)
    ELSE IF employees[manager_id].role \notin {"manager", "admin"}
    THEN Fail("create_bill", "Forbidden",
              <<"Only managers or admins can create bills.">>)
    ELSE IF ~Exists(employee_id)
    THEN Fail("create_bill", "NotFound", <<"Employee to bill not found.">>)
    ELSE IF employees[manager_id].role = "manager" /\ manager_id = employee_id
    THEN Fail("create_bill", "BadRequest",
              <<"Managers cannot create bills for themselves.">>)
    ELSE LET base_salary == employees[employee_id].salary
             current_used == SumBills(bills, employee_id)
                             + SumApprovedAdvances(advances, employee_id)
             new_used == current_used + amount
             new_remaining == base_salary - new_used
         IN Done("create_bill", employees,
                 Append(bills, [billed_employee_id |-> employee_id,
                                amount_billed |-> amount,
                                recorded_by_id |-> manager_id]),
                 advances, payments,
                 [id |-> Len(bills) + 1, warning |-> new_remaining < 0])

----------------------------------------------------------------------------
(* Ledger queries and the cached used_salary field *)

(* A caller reads the Ledger Calculator for one employee. *)
read_ledger(employee_id) ==
    Done("read_ledger", employees, bills, advances, payments,
         [used_salary |-> calculate_used_salary_from_transactions(employee_id),
          remaining_salary |-> calculate_remaining_salary(employee_id)])

(* A refresh that adds the recomputed value to the stored one. *)
UpdateUsedSalaryAccumulating(employee_id, t) ==
    IF ~Exists(employee_id)
    THEN Fail("update_employee_used_salary", "ValueError",
              <<"Employee not found">>)
    ELSE LET used_salary ==
                 employees[employee_id].used_salary
                 + calculate_used_salary_from_transactions(employee_id)
         IN Done("update_employee_used_salary",
                 [employees EXCEPT ![employee_id].used_salary = used_salary,
                                   ![employee_id].updated_at = t],
                 bills, advances, payments, used_salary)

(* salary_service.update_employee_used_salary *)
update_employee_used_salary(employee_id, t) ==
    IF ~Exists(employee_id)
    THEN Fail("update_employee_used_salary", "ValueError",
              <<"Employee not found">>)
    ELSE LET used_salary ==
                 calculate_used_salary_from_transactions(employee_id)
         IN Done("update_employee_used_salary",
                 [employees EXCEPT ![employee_id].used_salary = used_salary,
                                   ![employee_id].updated_at = t],
                 bills, advances, payments, used_salary)

(* A rollover that zeroes every used balance and carries nothing. *)
RolloverRowZeroing(employee, t) ==
    IF employee.used_salary > 0
    THEN [employee EXCEPT !.used_salary = 0, !.updated_at = t]
    ELSE employee

(* salary_service.reset_monthly_salary_for_new_month: one employee's row. *)
(* A changed row is written with UPDATE, which stamps updated_at          *)
(* (schema: onupdate).                                                    *)
RolloverRow(employee, t) ==
    LET remaining_salary == employee.salary - employee.used_salary
    IN IF remaining_salary < 0
       THEN [employee EXCEPT !.used_salary = employee.used_salary
                                              - employee.salary,
                             !.updated_at = t]
       ELSE IF employee.used_salary > 0
       THEN [employee EXCEPT !.used_salary = 0, !.updated_at = t]
       ELSE employee

RolloverStats(emps) ==
    LET carried == Cardinality({id \in DOMAIN emps :
                        emps[id].salary - emps[id].used_salary < 0})
        zeroed == Cardinality({id \in DOMAIN emps :
                        /\ ~(emps[id].salary - emps[id].used_salary < 0)
                        /\ emps[id].used_salary > 0})
    IN [reset_count |-> carried + zeroed, carried_forward |-> carried,
        reset_to_zero |-> zeroed]

(* A rollover that runs on every day of the month. *)
RolloverAnyDay(target_day, t) ==
    Done("reset_monthly_salary_for_new_month",
         [id \in DOMAIN employees |-> RolloverRow(employees[id], t)],
         bills, advances, payments, RolloverStats(employees))

reset_monthly_salary_for_new_month(target_day, t) ==
    IF target_day # 1
    THEN Done("reset_monthly_salary_for_new_month", employees, bills,
              advances, payments,
              [reset_count |-> 0, carried_forward |-> 0, reset_to_zero |-> 0])
    ELSE Done("reset_monthly_salary_for_new_month",
              [id \in DOMAIN employees |-> RolloverRow(employees[id], t)],
              bills, advances, payments, RolloverStats(employees))

----------------------------------------------------------------------------
(* Salary Payment Recorder, salary_payment_service.record_salary_payment *)

(* The recorder with the balance, the default amount and the failure     *)
(* handling as parameters: the stored balance after a payment of `paid`,  *)
(* the remaining salary the default is taken from, and whether a failed   *)
(* commit is rolled back.                                                 *)
RecordSalaryPaymentWith(employee_id, admin_id, amount_paid, t, db_ok, balance_after(_), remaining_salary, rolls_back) ==
    IF ~Exists(employee_id)
    THEN Fail("record_salary_payment", "ValueError", <<"Employee not found">>)
    ELSE IF ~Exists(admin_id)
    THEN Fail("record_salary_payment", "ValueError", <<"Admin not found">>)
    ELSE IF employees[admin_id].role # "admin"
    THEN Fail("record_salary_payment", "PermissionError",
              <<"Only admins can record salary payments">>)
    ELSE LET paid == IF ~amount_paid.some THEN Max(0, remaining_salary)
                     ELSE amount_paid.val
             salary_payment == [employee_id |-> employee_id,
                                paid_by_id |-> admin_id,
                                amount_paid |-> paid]
             written == [employees EXCEPT
                           ![employee_id].used_salary = balance_after(paid),
                           ![employee_id].updated_at = t]
         IN IF db_ok
            THEN Done("record_salary_payment", written, bills, advances,
                      Append(payments, salary_payment),
                      [id |-> Len(payments) + 1] @@ salary_payment)
            ELSE [Fail("record_salary_payment", "Exception",
                       <<"Failed to save salary payment to database">>)
                    EXCEPT !.employees = IF rolls_back THEN employees
                                         ELSE written]

(* A recorder that takes the amount paid off the stored balance. *)
RecordSalaryPaymentSubtracting(employee_id, admin_id, amount_paid, t, db_ok) ==
    LET balance_after(paid) ==
            Max(0, employees[employee_id].used_salary - paid)
    IN RecordSalaryPaymentWith(employee_id, admin_id, amount_paid, t, db_ok,
           balance_after,
           employees[employee_id].salary
               - calculate_used_salary_from_transactions(employee_id),
           TRUE)

(* A recorder whose default amount comes from the stored used_salary. *)
RecordSalaryPaymentFromStored(employee_id, admin_id, amount_paid, t, db_ok) ==
    LET balance_after(paid) == 0
    IN RecordSalaryPaymentWith(employee_id, admin_id, amount_paid, t, db_ok,
           balance_after,
           employees[employee_id].salary
               - employees[employee_id].used_salary,
           TRUE)

(* A recorder that keeps the balance reset when the commit fails. *)
RecordSalaryPaymentNoRollback(employee_id, admin_id, amount_paid, t, db_ok) ==
    LET balance_after(paid) == 0
    IN RecordSalaryPaymentWith(employee_id, admin_id, amount_paid, t, db_ok,
           balance_after,
           employees[employee_id].salary
               - calculate_used_salary_from_transactions(employee_id),
           FALSE)

(* amount_paid is Optional: None means "pay what remains".  db_ok is the  *)
(* outcome of flush/commit; on failure the transaction is rolled back.    *)
record_salary_payment(employee_id, admin_id, amount_paid, t, db_ok) ==
    IF ~Exists(employee_id)
    THEN Fail("record_salary_payment", "ValueError", <<"Employee not found">>)
    ELSE IF ~Exists(admin_id)
    THEN Fail("record_salary_payment", "ValueError", <<"Admin not found">>)
    ELSE IF employees[admin_id].role # "admin"
    THEN Fail("record_salary_payment", "PermissionError",
              <<"Only admins can record salary payments">>)
    ELSE LET current_used_salary ==
                 calculate_used_salary_from_transactions(employee_id)
             base_salary == employees[employee_id].salary
             remaining_salary == base_salary - current_used_salary
             paid == IF ~amount_paid.some THEN Max(0, remaining_salary)
                     ELSE amount_paid.val
             salary_payment == [employee_id |-> employee_id,
                                paid_by_id |-> admin_id,
                                amount_paid |-> paid]
         IN IF db_ok
            THEN Done("record_salary_payment",
                      [employees EXCEPT ![employee_id].used_salary = 0,
                                        ![employee_id].updated_at = t],
                      bills, advances, Append(payments, salary_payment),
                      [id |-> Len(payments) + 1] @@ salary_payment)
            ELSE Fail("record_salary_payment", "Exception",
                      <<"Failed to save salary payment to database">>)

(* The amounts a caller may pass to record_salary_payment. *)
PaidInputs == {None} \cup {Some(a) : a \in Amounts}

TargetDays == 1..2

----------------------------------------------------------------------------
(* Off-day requests, POST /api/off-days and PUT /api/off-days/{id}/approve *)
(* An off-day row keeps the columns the attendance tracker reads; the     *)
(* off_type and the reason are stored and never inspected.                *)

OffDayExists(id) == id \in DOMAIN off_days

(* Every off-day id, and one id that names no off-day. *)
AnyOffDayId == 1..(MaxOffDays + 1)

OffFail(op, err, detail) ==
    [off_days |-> off_days, resp |-> Response(op, err, detail), out |-> NoOut]

OffDone(op, offs, out) ==
    [off_days |-> offs, resp |-> Response(op, "ok", <<>>), out |-> out]

create_off_day(employee_id, date, day_count) ==
    IF ~Exists(employee_id)
    THEN OffFail("create_off_day", "NotFound", <<"Employee not found.">>)
    ELSE OffDone("create_off_day",
                 Append(off_days, [employee_id |-> employee_id, date |-> date,
                                   day_count |-> day_count,
                                   status |-> "pending"]),
                 [id |-> Len(off_days) + 1, date |-> date])

(* The handler writes the status and commits; the refresh of the          *)
(* employee's counters that follows (main.py 921-925) is done by          *)
(* app.utils.attendance, which is outside the attendance tracker.         *)
ApproveOffDayAnyStatus(off_day_id, approved) ==
    IF ~OffDayExists(off_day_id)
    THEN OffFail("approve_off_day", "NotFound",
                 <<"Off day request not found.">>)
    ELSE LET status == IF approved THEN "approved" ELSE "denied"
             offs == [off_days EXCEPT ![off_day_id].status = status]
         IN OffDone("approve_off_day", offs,
                    [id |-> off_day_id, status |-> status])

approve_off_day(off_day_id, approved) ==
    IF ~OffDayExists(off_day_id)
    THEN OffFail("approve_off_day", "NotFound",
                 <<"Off day request not found.">>)
    ELSE IF off_days[off_day_id].status # "pending"
    THEN OffFail("approve_off_day", "BadRequest",
                 <<"Off day is already", off_days[off_day_id].status>>)
    ELSE LET status == IF approved THEN "approved" ELSE "denied"
             offs == [off_days EXCEPT ![off_day_id].status = status]
         IN OffDone("approve_off_day", offs,
                    [id |-> off_day_id, status |-> status])

----------------------------------------------------------------------------
(* Attendance Tracker, app/services/attendance_service.py *)

(* The loop with a range that ends one day late. *)
RECURSIVE OffDayScanInclusiveEnd(_, _, _)
OffDayScanInclusiveEnd(offs, employee_id, check_date) ==
    IF offs = <<>> THEN FALSE
    ELSE LET off_day == Head(offs)
             off_day_start == off_day.date
             off_day_end == off_day_start + off_day.day_count
         IN IF /\ off_day.employee_id = employee_id
               /\ off_day.status = "approved"
               /\ off_day_start <= check_date
               /\ check_date <= off_day_end
            THEN TRUE
            ELSE OffDayScanInclusiveEnd(Tail(offs), employee_id, check_date)

(* The loop of is_today_off_day over the rows the query selects. *)
RECURSIVE OffDayScan(_, _, _)
OffDayScan(offs, employee_id, check_date) ==
    IF offs = <<>> THEN FALSE
    ELSE LET off_day == Head(offs)
             off_day_start == off_day.date
             off_day_end == off_day_start + (off_day.day_count - 1)
         IN IF /\ off_day.employee_id = employee_id
               /\ off_day.status = "approved"
               /\ off_day_start <= check_date
               /\ check_date <= off_day_end
            THEN TRUE
            ELSE OffDayScan(Tail(offs), employee_id, check_date)

is_today_off_day(employee_id, check_date) ==
    OffDayScan(off_days, employee_id, check_date)

(* A month test that compares the month number alone. *)
MonthOnlyChanged(last_update_date, update_date) ==
    Month(last_update_date) # Month(update_date)

(* The last mutation fell in another month or year than update_date. *)
MonthChanged(last_update_date, update_date) ==
    \/ Month(last_update_date) # Month(update_date)
    \/ Year(last_update_date) # Year(update_date)

(* One employee, one date.  The row is stamped with the wall clock `now`, *)
(* not with update_date.  updated_at is set on insert, so the branch for  *)
(* a missing timestamp (lines 92-94) is never taken.                      *)
update_employee_attendance_for_date(employee_id, update_date, now) ==
    LET employee == employees[employee_id]
        last_update_date == employee.updated_at
        monthly == IF MonthChanged(last_update_date, update_date)
                   THEN 0 ELSE employee.days_worked_this_month
        unchanged == Done("update_employee_attendance_for_date", employees,
                          bills, advances, payments, FALSE)
    IN IF update_date < employee.employment_start_date THEN unchanged
       ELSE IF is_today_off_day(employee_id, update_date) THEN unchanged
       ELSE IF last_update_date = update_date THEN unchanged
       ELSE Done("update_employee_attendance_for_date",
                 [employees EXCEPT ![employee_id] =
                     [employee EXCEPT
                        !.days_worked_this_month = monthly + 1,
                        !.total_days_worked = employee.total_days_worked + 1,
                        !.updated_at = now]],
                 bills, advances, payments, TRUE)

(* What the sweep does with one employee of its query. *)
SweepClass(id, update_date) ==
    IF employees[id].updated_at = update_date THEN "already_counted"
    ELSE IF update_date < employees[id].employment_start_date
    THEN "not_started"
    ELSE IF is_today_off_day(id, update_date) THEN "off_days"
    ELSE "attend"

SweepQueryAll(update_date) == DOMAIN employees

SweepQuery(update_date) ==
    {id \in DOMAIN employees :
        employees[id].employment_start_date <= update_date}

SweepRow(id, update_date, now) ==
    IF id \notin SweepQuery(update_date) THEN employees[id]
    ELSE IF SweepClass(id, update_date) = "off_days"
    THEN [employees[id] EXCEPT !.updated_at = now]
    ELSE IF SweepClass(id, update_date) = "attend"
    THEN update_employee_attendance_for_date(id, update_date, now)
            .employees[id]
    ELSE employees[id]

SweepCount(update_date, class) ==
    Cardinality({id \in SweepQuery(update_date) :
                    SweepClass(id, update_date) = class})

update_all_employees_attendance(update_date, now) ==
    Done("update_all_employees_attendance",
         [id \in DOMAIN employees |-> SweepRow(id, update_date, now)],
         bills, advances, payments,
         [total_employees |-> Cardinality(SweepQuery(update_date)),
          updated |-> Cardinality({id \in SweepQuery(update_date) :
                        /\ SweepClass(id, update_date) = "attend"
                        /\ update_employee_attendance_for_date(
                               id, update_date, now).out}),
          off_days |-> SweepCount(update_date, "off_days"),
          not_started |-> SweepCount(update_date, "not_started"),
          already_counted |-> SweepCount(update_date, "already_counted")])

(* A batch reset that clears the lifetime counter too. *)
ResetAttendanceClearingTotal(target_date, now) ==
    IF Day(target_date) # 1
    THEN Done("reset_monthly_attendance_for_new_month", employees, bills,
              advances, payments, 0)
    ELSE LET reset == {id \in DOMAIN employees :
                          employees[id].days_worked_this_month > 0}
         IN Done("reset_monthly_attendance_for_new_month",
                 [id \in DOMAIN employees |->
                     IF id \in reset
                     THEN [employees[id] EXCEPT
                             !.days_worked_this_month = 0,
                             !.total_days_worked = 0, !.updated_at = now]
                     ELSE employees[id]],
                 bills, advances, payments, Cardinality(reset))

(* Batch reset of the monthly counter.  A changed row is written with     *)
(* UPDATE, which stamps updated_at (schema: onupdate).                    *)
reset_monthly_attendance_for_new_month(target_date, now) ==
    IF Day(target_date) # 1
    THEN Done("reset_monthly_attendance_for_new_month", employees, bills,
              advances, payments, 0)
    ELSE LET reset == {id \in DOMAIN employees :
                          employees[id].days_worked_this_month > 0}
         IN Done("reset_monthly_attendance_for_new_month",
                 [id \in DOMAIN employees |->
                     IF id \in reset
                     THEN [employees[id] EXCEPT
                             !.days_worked_this_month = 0, !.updated_at = now]
                     ELSE employees[id]],
                 bills, advances, payments, Cardinality(reset))

----------------------------------------------------------------------------
(* The handlers as transitions *)

CreateAdvance(e, a) == Apply(create_advance(e, a))

RequestAdvance(e, a) == Apply(request_advance(e, a))

HttpApproveAdvance(i, ok, n, t) == Apply(http_approve_advance(i, ok, n, t))

ServiceApproveAdvance(i, adm, ok, n, t) ==
    Apply(service_approve_advance(i, adm, ok, n, t))

CreateBill(m, e, a) == Apply(create_bill(m, e, a))

ReadLedger(e) == Apply(read_ledger(e))

UpdateEmployeeUsedSalary(e, t) == Apply(update_employee_used_salary(e, t))

ResetMonthlySalary(d, t) == Apply(reset_monthly_salary_for_new_month(d, t))

RecordSalaryPayment(e, adm, p, t, ok) ==
    Apply(record_salary_payment(e, adm, p, t, ok))

(* The advance life cycle: requests, decisions, bills and ledger reads,   *)
(* run one at a time.                                                     *)
NextApproval ==
    \/ \E e \in AnyEmployeeId, a \in Amounts : CreateAdvance(e, a)
    \/ \E e \in AnyEmployeeId, a \in Amounts : RequestAdvance(e, a)
    \/ \E i \in AnyAdvanceId, ok \in BOOLEAN, n \in NotesInputs, t \in Times :
            HttpApproveAdvance(i, ok, n, t)
    \/ \E i \in AnyAdvanceId, adm \in AnyEmployeeId, ok \in BOOLEAN,
          n \in NotesInputs, t \in Times :
            ServiceApproveAdvance(i, adm, ok, n, t)
    \/ \E m \in AnyEmployeeId, e \in AnyEmployeeId, a \in Amounts :
            CreateBill(m, e, a)
    \/ \E e \in AnyEmployeeId : ReadLedger(e)

SpecApproval == Init /\ [][NextApproval]_vars

(* The ledger and the cached balance: bills, approved advances, refresh,  *)
(* rollover and salary payments, run one at a time.                       *)
NextLedger ==
    \/ \E e \in AnyEmployeeId, a \in Amounts :
            Len(advances) < MaxLedgerAdvances /\ CreateAdvance(e, a)
    \/ \E i \in AnyAdvanceId, t \in Times :
            HttpApproveAdvance(i, TRUE, None, t)
    \/ \E m \in AnyEmployeeId, e \in AnyEmployeeId, a \in Amounts :
            CreateBill(m, e, a)
    \/ \E e \in AnyEmployeeId : ReadLedger(e)
    \/ \E e \in AnyEmployeeId, t \in Times : UpdateEmployeeUsedSalary(e, t)
    \/ \E d \in TargetDays, t \in Times : ResetMonthlySalary(d, t)
    \/ \E e \in AnyEmployeeId, adm \in AnyEmployeeId, p \in PaidInputs,
          t \in Times, ok \in BOOLEAN :
            RecordSalaryPayment(e, adm, p, t, ok)

SpecLedger == Init /\ [][NextLedger]_vars

----------------------------------------------------------------------------
(* The attendance tracker under the wall clock.  `today` is the date of   *)
(* the clock, read by every handler that stamps a row.  last_counted      *)
(* records, for each employee, the latest date an attendance increment    *)
(* was made for (-1: none yet); no handler reads it, and it is kept only  *)
(* where `track` is set.                                                  *)

ApplyOffDays(r) ==
    /\ Len(r.off_days) <= MaxOffDays
    /\ off_days' = r.off_days
    /\ UNCHANGED <<employees, bills, advances, payments, reqs, today,
                   last_counted, job>>

CreateOffDay(e, d, n) == ApplyOffDays(create_off_day(e, d, n))

ApproveOffDay(i, ok) == ApplyOffDays(approve_off_day(i, ok))

(* A caller asks whether a date is an off-day. *)
IsTodayOffDay(e, d) ==
    /\ is_today_off_day(e, d) \in BOOLEAN
    /\ UNCHANGED vars

Tick ==
    /\ today < MaxDate
    /\ today' = today + 1
    /\ UNCHANGED <<employees, bills, advances, payments, reqs, off_days,
                   last_counted, job>>

WithinWorked(emps) ==
    \A id \in DOMAIN emps : emps[id].total_days_worked <= MaxWorked

(* The employees whose total_days_worked a call has incremented. *)
Counted(emps) ==
    {id \in DOMAIN emps :
        emps[id].total_days_worked > employees[id].total_days_worked}

ApplyAttendance(r, d, track) ==
    /\ WithinWorked(r.employees)
    /\ ApplyTables(r)
    /\ last_counted' = [id \in DOMAIN last_counted |->
                          IF track /\ id \in Counted(r.employees)
                          THEN Max(last_counted[id], d) ELSE last_counted[id]]
    /\ UNCHANGED <<reqs, off_days, today, job>>

UpdateEmployeeAttendanceForDate(e, d, track) ==
    ApplyAttendance(update_employee_attendance_for_date(e, d, today), d, track)

UpdateAllEmployeesAttendance(d, track) ==
    ApplyAttendance(update_all_employees_attendance(d, today), d, track)

ResetMonthlyAttendance(d) ==
    ApplyAttendance(reset_monthly_attendance_for_new_month(d, today), d, FALSE)

StaffId == 1

AdminId == 3

(* The tracker's functions called for any date, with off-day requests of  *)
(* the staff member.                                                      *)
NextAttendance ==
    \/ Tick
    \/ \E e \in {StaffId, Len(employees) + 1}, d \in Dates, n \in DayCounts :
            Len(off_days) < MaxSweepOffDays /\ CreateOffDay(e, d, n)
    \/ \E i \in AnyOffDayId, ok \in BOOLEAN : ApproveOffDay(i, ok)
    \/ \E e \in DOMAIN employees, d \in Dates :
            UpdateEmployeeAttendanceForDate(e, d, FALSE)
    \/ \E d \in Dates : UpdateAllEmployeesAttendance(d, FALSE)
    \/ \E d \in Dates : ResetMonthlyAttendance(d)

SpecAttendance == Init /\ [][NextAttendance]_vars

(* The staff member's month: the daily sweep and the batch reset run for  *)
(* the date of the clock, as the daily job runs them; in between, the     *)
(* staff member's row is written by single-date attendance calls, salary  *)
(* payments and ledger refreshes.                                         *)
NextMonth ==
    \/ Tick
    \/ \E d \in Dates :
            Len(off_days) < MaxSweepOffDays /\ CreateOffDay(StaffId, d, 1)
    \/ \E i \in AnyOffDayId, ok \in BOOLEAN : ApproveOffDay(i, ok)
    \/ UpdateEmployeeAttendanceForDate(StaffId, today, TRUE)
    \/ UpdateAllEmployeesAttendance(today, TRUE)
    \/ ResetMonthlyAttendance(today)
    \/ RecordSalaryPayment(StaffId, AdminId, None, today, TRUE)
    \/ UpdateEmployeeUsedSalary(StaffId, today)

SpecMonth == Init /\ [][NextMonth]_vars

(* The daily job, scripts/daily_attendance_update.py.  It reads the date  *)
(* of the clock once; on the 1st it runs the attendance reset and the     *)
(* salary rollover, then on every day the sweep; each call commits on its *)
(* own, each reading the date of the clock for itself.  job.before keeps  *)
(* the employee rows the job started from.  The clock does not pass       *)
(* midnight and no request is served while the job runs.                  *)

job_begin ==
    /\ job.pc = "idle"
    /\ job' = [pc |-> IF Day(today) = 1 THEN "reset" ELSE "sweep",
               date |-> today, before |-> employees]
    /\ UNCHANGED <<employees, bills, advances, payments, reqs, off_days,
                   today, last_counted>>

JobStep(pc, r, next) ==
    /\ job.pc = pc
    /\ WithinWorked(r.employees)
    /\ ApplyTables(r)
    /\ job' = [job EXCEPT !.pc = next]
    /\ UNCHANGED <<reqs, off_days, today, last_counted>>

job_reset_attendance ==
    JobStep("reset", reset_monthly_attendance_for_new_month(today, today),
            "rollover")

job_reset_salary ==
    JobStep("rollover",
            reset_monthly_salary_for_new_month(Day(today), today), "sweep")

job_sweep ==
    JobStep("sweep", update_all_employees_attendance(today, today), "done")

job_end ==
    /\ job.pc = "done"
    /\ job' = Idle
    /\ UNCHANGED <<employees, bills, advances, payments, reqs, off_days,
                   today, last_counted>>

JobIdle == job.pc = "idle"

NextJob ==
    \/ JobIdle /\ Tick
    \/ job_begin
    \/ job_reset_attendance
    \/ job_reset_salary
    \/ job_sweep
    \/ job_end
    \/ \E d \in Dates :
            /\ JobIdle /\ Len(off_days) < MaxSweepOffDays
            /\ CreateOffDay(StaffId, d, 1)
    \/ \E i \in AnyOffDayId, ok \in BOOLEAN : JobIdle /\ ApproveOffDay(i, ok)
    \/ \E a \in Amounts : JobIdle /\ CreateBill(AdminId, StaffId, a)
    \/ JobIdle /\ UpdateEmployeeUsedSalary(StaffId, today)

SpecJob == Init /\ [][NextJob]_vars

(* Off-day requests and their decisions. *)
NextOffDay ==
    \/ \E e \in AnyEmployeeId, d \in Dates, n \in DayCounts :
            CreateOffDay(e, d, n)
    \/ \E i \in AnyOffDayId, ok \in BOOLEAN : ApproveOffDay(i, ok)
    \/ \E e \in AnyEmployeeId, d \in Dates : IsTodayOffDay(e, d)

SpecOffDay == Init /\ [][NextOffDay]_vars

----------------------------------------------------------------------------
(* Concurrent approve requests.  Each request runs in its own session:    *)
(* it loads the advance and reads the ledger (main.py 696-727), and in a  *)
(* later step writes the decided row and commits (main.py 731-774).  No   *)
(* lock is held between the two steps.  A request for an unknown or an    *)
(* already decided advance is answered with an error at once and writes   *)
(* nothing, so it takes no step here.  Other handlers run while no        *)
(* approve request is in flight.                                          *)

AllIdle == \A r \in Requests : reqs[r].pc = "idle"

approve_begin(r, advance_id, approved, notes) ==
    /\ reqs[r].pc = "idle"
    /\ AdvanceExists(advance_id)
    /\ advances[advance_id].status = "pending"
    /\ LET adv == advances[advance_id]
           e == adv.employee_id
       IN reqs' = [reqs EXCEPT ![r] =
                     [pc |-> "decide", advance_id |-> advance_id, adv |-> adv,
                      approved |-> approved, notes |-> notes,
                      remaining_salary |-> calculate_remaining_salary(e),
                      current_used |-> SumBills(bills, e)
                                       + SumApprovedAdvances(advances, e),
                      base_salary |-> employees[e].salary]]
    /\ UNCHANGED <<employees, bills, advances, payments, off_days, today,
                   last_counted, job>>

approve_commit(r, t) ==
    /\ reqs[r].pc = "decide"
    /\ advances' = [advances EXCEPT ![reqs[r].advance_id] =
                      HttpDecision(reqs[r].adv, reqs[r].approved,
                                   reqs[r].notes, reqs[r].remaining_salary,
                                   reqs[r].current_used, reqs[r].base_salary,
                                   t)]
    /\ reqs' = [reqs EXCEPT ![r] = Idle]
    /\ UNCHANGED <<employees, bills, payments, off_days, today,
                   last_counted, job>>

NextConc ==
    \/ \E e \in AnyEmployeeId, a \in Amounts :
            AllIdle /\ CreateAdvance(e, a)
    \/ \E m \in AnyEmployeeId, e \in AnyEmployeeId, a \in Amounts :
            AllIdle /\ CreateBill(m, e, a)
    \/ \E r \in Requests, i \in AnyAdvanceId, ok \in BOOLEAN :
            approve_begin(r, i, ok, None)
    \/ \E r \in Requests, t \in Times : approve_commit(r, t)

SpecConc == Init /\ [][NextConc]_vars

----------------------------------------------------------------------------
(* Properties *)

Used(e) == SumBills(bills, e) + SumApprovedAdvances(advances, e)

Pending(i) == i \in DOMAIN advances /\ advances[i].status = "pending"

(* Approving advance i would take the employee's used salary above the    *)
(* base salary.                                                           *)
WouldOverdraw(i) ==
    Used(advances[i].employee_id) + advances[i].amount_for_advance
        > employees[advances[i].employee_id].salary

IsMarker(tok) == tok = "[AUTO-REJECTED:"

(* stored is the given notes (if any) followed by an AUTO-REJECTED text. *)
NotesThenMarker(given, stored) ==
    /\ stored.some
    /\ LET prefix == IF given.some THEN given.val ELSE <<>>
           n == Len(prefix)
       IN /\ Len(stored.val) > n
          /\ SubSeq(stored.val, 1, n) = prefix
          /\ LET rest == LStrip(SubSeq(stored.val, n + 1, Len(stored.val)))
             IN rest # <<>> /\ IsMarker(Head(rest))

HasMarker(stored) ==
    stored.some /\ \E k \in DOMAIN stored.val : IsMarker(stored.val[k])

(* C1: approving, through the HTTP handler, a pending advance that would  *)
(* take bills + approved advances + its amount above the base salary      *)
(* returns normally with the advance denied, never approved, and its      *)
(* approval_notes are the admin's notes (if any) followed by an           *)
(* AUTO-REJECTED marker.                                                  *)
C1_OverdrawingApprovalAutoDenied ==
    \A i \in DOMAIN advances, n \in NotesInputs, t \in Times :
        LET r == http_approve_advance(i, TRUE, n, t)
        IN (Pending(i) /\ WouldOverdraw(i)) =>
              /\ r.resp.err = "ok"
              /\ r.advances[i].status = "denied"
              /\ r.out.status = "denied"
              /\ NotesThenMarker(n, r.advances[i].approval_notes)
              /\ r.out.approval_notes = r.advances[i].approval_notes
              /\ advances[i].amount_for_advance
                    > calculate_remaining_salary(advances[i].employee_id)

(* An advance was auto-denied: it is denied, carries the marker, and      *)
(* approving it would indeed overdraw.                                    *)
C1_Witness ==
    \E i \in DOMAIN advances :
        /\ advances[i].status = "denied"
        /\ HasMarker(advances[i].approval_notes)
        /\ WouldOverdraw(i)

(* C2: two approve requests on two pending advances of one employee,      *)
(* each reading the ledger and writing its decision in separate steps,    *)
(* end as some serial execution would: no step that approves an advance   *)
(* leaves bills + approved advances above the base salary.                *)
C2_ConcurrentApprovalsSerialize ==
    [][\A i \in DOMAIN advances :
            (advances[i].status = "pending" /\ advances'[i].status = "approved")
            => SumBills(bills', advances[i].employee_id)
               + SumApprovedAdvances(advances', advances[i].employee_id)
               <= employees[advances[i].employee_id].salary]_vars

(* C3: every operation that approves a pending advance denies it instead  *)
(* when approval would overdraw, so with no bills the approved advances   *)
(* of an employee never exceed the salary.                                *)
C3_EveryApprovalRevalidates ==
    /\ \A i \in DOMAIN advances, adm \in AnyEmployeeId, n \in NotesInputs,
          t \in Times :
            (Pending(i) /\ WouldOverdraw(i)) =>
                /\ http_approve_advance(i, TRUE, n, t).advances[i].status
                       # "approved"
                /\ service_approve_advance(i, adm, TRUE, n, t).advances[i].status
                       # "approved"
    /\ bills = <<>> =>
            \A e \in DOMAIN employees :
                SumApprovedAdvances(advances, e) <= employees[e].salary

(* The outcome r wrote nothing. *)
Unchanged(r) ==
    /\ r.employees = employees
    /\ r.bills = bills
    /\ r.advances = advances
    /\ r.payments = payments

Decided(i) == i \in DOMAIN advances /\ advances[i].status # "pending"

IsAdmin(id) == Exists(id) /\ employees[id].role = "admin"

(* An advance that was decided is decided again by nobody: the HTTP       *)
(* handler fails with "already <status>" and writes nothing.              *)
HttpRefusesDecided(i, ok, n, t) ==
    LET h == http_approve_advance(i, ok, n, t)
    IN /\ h.resp.err # "ok"
       /\ h.resp.detail = AlreadyDetail(advances[i].status)
       /\ Unchanged(h)

OnlyPendingIsDecided ==
    \A i \in DOMAIN advances :
        advances'[i].status # advances[i].status =>
            /\ advances[i].status = "pending"
            /\ advances'[i].status \in {"approved", "denied"}

(* C4 as stated: any later decide call on a decided advance, by either    *)
(* implementation and whoever the caller, fails with "already <status>"   *)
(* and leaves the advance as it is.                                       *)
C4_AnyCallFailsWithAlready ==
    \A i \in DOMAIN advances, adm \in AnyEmployeeId, ok \in BOOLEAN,
       n \in NotesInputs, t \in Times :
        Decided(i) =>
            LET s == service_approve_advance(i, adm, ok, n, t)
            IN /\ HttpRefusesDecided(i, ok, n, t)
               /\ s.resp.err # "ok"
               /\ s.resp.detail = AlreadyDetail(advances[i].status)
               /\ Unchanged(s)

(* C4, amended: a decided advance is terminal.  A later decide call fails *)
(* and changes nothing; the error is "already <status>" from the HTTP     *)
(* handler, and from the service function when the caller is an admin     *)
(* (for another caller the service raises its admin-check error first).   *)
(* The only status transitions are pending->approved and pending->denied. *)
C4_DecidedIsTerminal ==
    /\ [](\A i \in DOMAIN advances, adm \in AnyEmployeeId, ok \in BOOLEAN,
             n \in NotesInputs, t \in Times :
            Decided(i) =>
                LET s == service_approve_advance(i, adm, ok, n, t)
                IN /\ HttpRefusesDecided(i, ok, n, t)
                   /\ s.resp.err # "ok"
                   /\ Unchanged(s)
                   /\ IsAdmin(adm) =>
                        s.resp.detail = AlreadyDetail(advances[i].status))
    /\ [][OnlyPendingIsDecided]_vars

(* An approved and a denied advance exist, and a decide call on each is   *)
(* refused.                                                               *)
C4_Witness ==
    \E i, j \in DOMAIN advances, adm \in DOMAIN employees :
        /\ advances[i].status = "approved"
        /\ advances[j].status = "denied"
        /\ IsAdmin(adm)
        /\ http_approve_advance(i, FALSE, None, 1).resp.err = "BadRequest"
        /\ service_approve_advance(j, adm, TRUE, None, 1).resp.err
               = "ValueError"

(* The advances table with row i denied at t with the given notes. *)
WithDenied(i, n, t) ==
    [k \in DOMAIN advances |->
        IF k = i
        THEN [employee_id |-> advances[i].employee_id,
              amount_for_advance |-> advances[i].amount_for_advance,
              status |-> "denied", approved_at |-> Some(t),
              approval_notes |-> n]
        ELSE advances[k]]

DenyFrame(r, i, n, t) ==
    /\ r.resp.err = "ok"
    /\ r.advances = WithDenied(i, n, t)
    /\ r.employees = employees
    /\ r.bills = bills
    /\ r.payments = payments
    /\ \A e \in DOMAIN employees :
            SumBills(r.bills, e) + SumApprovedAdvances(r.advances, e) = Used(e)

(* C5: deciding a pending advance with approved = false sets it to        *)
(* denied, stamps approved_at and stores the notes as given, whatever the *)
(* ledger says; the stored and the recomputed used salary, the other      *)
(* advances, the bills and the employees stay as they are.  (The service  *)
(* function decides only for an admin caller; otherwise it raises and     *)
(* writes nothing.)                                                       *)
C5_DenyStoresNotesAndKeepsLedger ==
    \A i \in DOMAIN advances, adm \in AnyEmployeeId, n \in NotesInputs,
       t \in Times :
        Pending(i) =>
            LET s == service_approve_advance(i, adm, FALSE, n, t)
            IN /\ DenyFrame(http_approve_advance(i, FALSE, n, t), i, n, t)
               /\ IsAdmin(adm) => DenyFrame(s, i, n, t)
               /\ ~IsAdmin(adm) => (s.resp.err # "ok" /\ Unchanged(s))

(* An advance was denied with the admin's notes stored as given, although *)
(* approving it would have overdrawn.                                     *)
C5_Witness ==
    \E i \in DOMAIN advances :
        /\ advances[i].status = "denied"
        /\ advances[i].approved_at.some
        /\ advances[i].approval_notes = Some(<<"ok">>)
        /\ WouldOverdraw(i)

(* The sum of f over the index set S. *)
RECURSIVE SumOver(_, _)
SumOver(S, f) ==
    IF S = {} THEN 0
    ELSE LET k == CHOOSE x \in S : TRUE IN f[k] + SumOver(S \ {k}, f)

(* The used salary of e as the ledger defines it: the bills billed to e   *)
(* plus the approved advances of e.                                       *)
LedgerUsed(e) ==
    SumOver({k \in DOMAIN bills : bills[k].billed_employee_id = e},
            [k \in DOMAIN bills |-> bills[k].amount_billed])
    + SumOver({k \in DOMAIN advances : /\ advances[k].employee_id = e
                                        /\ advances[k].status = "approved"},
              [k \in DOMAIN advances |-> advances[k].amount_for_advance])

(* C6: for every employee the Ledger Calculator returns used_salary =     *)
(* bills billed to the employee + the employee's approved advances        *)
(* (pending and denied advances and other employees' records count for    *)
(* nothing) and remaining_salary = salary - used_salary, unclamped; the   *)
(* computation writes nothing.                                            *)
C6_LedgerCalculator ==
    \A e \in DOMAIN employees :
        LET r == read_ledger(e)
        IN /\ calculate_used_salary_from_transactions(e) = LedgerUsed(e)
           /\ calculate_remaining_salary(e)
                  = employees[e].salary - LedgerUsed(e)
           /\ r.resp.err = "ok"
           /\ r.out.used_salary = LedgerUsed(e)
           /\ r.out.remaining_salary = employees[e].salary - LedgerUsed(e)
           /\ Unchanged(r)

(* An overdrawn employee (negative remaining salary) who also has an      *)
(* advance that is not approved, while another employee has records too.  *)
C6_Witness ==
    \E e, o \in DOMAIN employees :
        /\ e # o
        /\ calculate_remaining_salary(e) < 0
        /\ \E k \in DOMAIN advances : /\ advances[k].employee_id = e
                                      /\ advances[k].status # "approved"
        /\ \E k \in DOMAIN advances : /\ advances[k].employee_id = o
                                      /\ advances[k].status = "approved"

(* C7: update_employee_used_salary(e) leaves the stored used_salary of e  *)
(* equal to bills + approved advances of e, whatever it was before, and   *)
(* returns that value; for an unknown id it raises not-found and writes   *)
(* nothing.                                                               *)
C7_RefreshMatchesLedger ==
    \A e \in AnyEmployeeId, t \in Times :
        LET r == update_employee_used_salary(e, t)
        IN IF Exists(e)
           THEN /\ r.resp.err = "ok"
                /\ r.employees[e].used_salary = LedgerUsed(e)
                /\ r.out = LedgerUsed(e)
                /\ \A o \in DOMAIN employees : o # e =>
                        r.employees[o] = employees[o]
                /\ r.bills = bills /\ r.advances = advances
                /\ r.payments = payments
           ELSE /\ r.resp.err = "ValueError"
                /\ r.resp.detail = <<"Employee not found">>
                /\ Unchanged(r)

(* An employee whose balance was reset by a payment and refreshed         *)
(* afterwards: a payment exists and the stored used_salary is the         *)
(* (nonzero) ledger value.                                                *)
C7_Witness ==
    \E e \in DOMAIN employees :
        /\ \E k \in DOMAIN payments : payments[k].employee_id = e
        /\ LedgerUsed(e) > 0
        /\ employees[e].used_salary = LedgerUsed(e)

(* C8: every successful record_salary_payment leaves the employee's       *)
(* stored used_salary at 0 and adds exactly one SalaryPayment row, for    *)
(* any prior used_salary and any amount, given or defaulted.              *)
C8_PaymentResetsBalance ==
    \A e \in AnyEmployeeId, adm \in AnyEmployeeId, p \in PaidInputs,
       t \in Times, ok \in BOOLEAN :
        LET r == record_salary_payment(e, adm, p, t, ok)
        IN r.resp.err = "ok" =>
              /\ r.employees[e].used_salary = 0
              /\ Len(r.payments) = Len(payments) + 1
              /\ SubSeq(r.payments, 1, Len(payments)) = payments
              /\ r.payments[Len(r.payments)].employee_id = e

(* A payment was recorded for an employee whose ledger is above the       *)
(* salary, and the stored used_salary is 0.                               *)
C8_Witness ==
    \E e \in DOMAIN employees :
        /\ \E k \in DOMAIN payments : payments[k].employee_id = e
        /\ LedgerUsed(e) > employees[e].salary
        /\ employees[e].used_salary = 0
        /\ employees[e].updated_at > 0

(* C9: without an amount, the recorded amount_paid is                     *)
(* max(0, salary - (bills + approved advances)) from the transaction      *)
(* records, not from the stored used_salary; a given amount is recorded   *)
(* as given.                                                              *)
C9_DefaultAmountFromLedger ==
    \A e \in AnyEmployeeId, adm \in AnyEmployeeId, p \in PaidInputs,
       t \in Times :
        LET r == record_salary_payment(e, adm, p, t, TRUE)
            due == employees[e].salary - LedgerUsed(e)
        IN r.resp.err = "ok" =>
              /\ r.payments[Len(r.payments)].amount_paid
                    = (IF p.some THEN p.val
                       ELSE IF due > 0 THEN due ELSE 0)
              /\ r.out.amount_paid = r.payments[Len(r.payments)].amount_paid

(* A defaulted payment to an overdrawn employee: the amount recorded is   *)
(* 0, which no caller passes.                                             *)
C9_Witness ==
    \E k \in DOMAIN payments :
        /\ payments[k].amount_paid = 0
        /\ LedgerUsed(payments[k].employee_id)
               > employees[payments[k].employee_id].salary

(* A call of record_salary_payment must fail. *)
PaymentMustFail(e, adm, ok) == ~Exists(e) \/ ~IsAdmin(adm) \/ ~ok

PaymentAddsRowWithReset ==
    payments' # payments =>
        /\ Len(payments') = Len(payments) + 1
        /\ SubSeq(payments', 1, Len(payments)) = payments
        /\ employees'[payments'[Len(payments')].employee_id].used_salary = 0

----------------------------------------------------------------------------
(* Attendance properties *)

Started(e, d) == d >= employees[e].employment_start_date

Counters(row) == <<row.days_worked_this_month, row.total_days_worked>>

(* C11: calling update_employee_attendance_for_date twice for the same    *)
(* employee and the same date is idempotent for every date on or after    *)
(* the employment start: right after a call for (e, d), a second call for *)
(* (e, d) returns False and leaves both counters unchanged.               *)
C11_SecondCallIsNoOp ==
    [][\A e \in DOMAIN employees, d \in Dates :
          (Started(e, d) /\ UpdateEmployeeAttendanceForDate(e, d, FALSE))
          => (LET second == update_employee_attendance_for_date(e, d, today)
              IN /\ second.out = FALSE
                 /\ Counters(second.employees[e]) = Counters(employees[e]))'
      ]_vars

(* Some approved off-day of employee e has a range that covers date d. *)
Covered(e, d) ==
    \E i \in DOMAIN off_days :
        /\ off_days[i].employee_id = e
        /\ off_days[i].status = "approved"
        /\ off_days[i].date <= d
        /\ d <= off_days[i].date + off_days[i].day_count - 1

SameMonth(a, b) == <<Month(a), Year(a)>> = <<Month(b), Year(b)>>

C13_OffDayIffApprovedRange ==
    \A e \in AnyEmployeeId, d \in Dates :
        is_today_off_day(e, d) <=> Covered(e, d)

(* Two approved ranges of one employee overlap on a date, next to one     *)
(* where only a request of another status or employee lies.               *)
C13_Witness ==
    /\ Len(off_days) = 2
    /\ off_days[1].employee_id = off_days[2].employee_id
    /\ off_days[1].status = "approved" /\ off_days[2].status = "approved"
    /\ off_days[1].date # off_days[2].date
    /\ \E d \in Dates :
          /\ off_days[1].date <= d /\ off_days[2].date <= d
          /\ d <= off_days[1].date + off_days[1].day_count - 1
          /\ d <= off_days[2].date + off_days[2].day_count - 1
          /\ is_today_off_day(off_days[1].employee_id, d)

(* A step that makes employee e's first attendance increment of a new     *)
(* calendar month: the date counted lies in a later month than every date *)
(* counted for e before.                                                  *)
FirstIncrementOfMonth(e) ==
    /\ employees'[e].total_days_worked > employees[e].total_days_worked
    /\ last_counted[e] # -1
    /\ last_counted'[e] > last_counted[e]
    /\ ~SameMonth(last_counted[e], last_counted'[e])

(* C14: the per-employee new-month detection and the batch reset agree in *)
(* outcome: whatever was done to the employee's row before (sweeps with   *)
(* off-day stamping, salary payments, ledger refreshes), and whether or   *)
(* not the batch reset ran on the 1st, the first attendance increment of  *)
(* a new calendar month leaves days_worked_this_month = 1.                *)
C14_FirstIncrementLeavesOne ==
    [][\A e \in DOMAIN employees :
          FirstIncrementOfMonth(e) => employees'[e].days_worked_this_month = 1
      ]_vars

(* C15: in update_all_employees_attendance(d) an employee with an         *)
(* approved off-day covering d (not yet processed for d) gets updated_at  *)
(* stamped and neither counter incremented, and a second run of the sweep *)
(* for the same d changes no employee's counters, reports every employee  *)
(* of the first run as already_counted and reports updated = 0.           *)
C15_SweepRerunCountsNothing ==
    [][\A d \in Dates :
          UpdateAllEmployeesAttendance(d, FALSE) =>
            /\ \A id \in SweepQuery(d) :
                  (Covered(id, d) /\ employees[id].updated_at # d) =>
                     /\ employees'[id].updated_at = today
                     /\ Counters(employees'[id]) = Counters(employees[id])
            /\ (LET second == update_all_employees_attendance(d, today)
                IN /\ \A id \in DOMAIN employees :
                         Counters(second.employees[id])
                            = Counters(employees[id])
                   /\ second.out.updated = 0
                   /\ second.out.already_counted
                         = second.out.total_employees)'
      ]_vars

(* C18: reset_monthly_attendance_for_new_month(d) returns 0 and mutates   *)
(* nothing unless d is the first day of a month; on the 1st it sets       *)
(* days_worked_this_month to 0 for exactly the employees whose value is   *)
(* nonzero, returns their number, and never changes total_days_worked.    *)
C18_MonthlyAttendanceReset ==
    \A d \in Dates :
        LET r == reset_monthly_attendance_for_new_month(d, today)
            nonzero == {id \in DOMAIN employees :
                           employees[id].days_worked_this_month # 0}
        IN /\ r.resp.err = "ok"
           /\ r.bills = bills /\ r.advances = advances
           /\ r.payments = payments
           /\ DOMAIN r.employees = DOMAIN employees
           /\ \A id \in DOMAIN employees :
                 r.employees[id].total_days_worked
                    = employees[id].total_days_worked
           /\ IF Day(d) # 1
              THEN r.out = 0 /\ r.employees = employees
              ELSE /\ r.out = Cardinality(nonzero)
                   /\ \A id \in DOMAIN employees :
                         /\ r.employees[id].days_worked_this_month = 0
                         /\ id \notin nonzero =>
                               r.employees[id] = employees[id]

(* A reset has acted on one employee (no day of the month counted, days   *)
(* counted in all) while another has days counted this month.             *)
C18_Witness ==
    \E a \in DOMAIN employees, b \in DOMAIN employees :
        /\ employees[a].days_worked_this_month = 0
        /\ employees[a].total_days_worked > 0
        /\ employees[b].days_worked_this_month > 0

----------------------------------------------------------------------------
(* Rollover properties *)

NoStats == [reset_count |-> 0, carried_forward |-> 0, reset_to_zero |-> 0]

(* C16: the monthly salary rollover invoked with a date that is not the   *)
(* 1st of a month returns reset_count = carried_forward = reset_to_zero   *)
(* = 0 and changes no employee's used_salary nor any other state.         *)
C16_RolloverOffTheFirstIsNoOp ==
    \A target_day \in TargetDays \ {1}, t \in Times :
        LET r == reset_monthly_salary_for_new_month(target_day, t)
        IN /\ r.resp.err = "ok"
           /\ r.out = NoStats
           /\ r.employees = employees
           /\ r.bills = bills
           /\ r.advances = advances
           /\ r.payments = payments

(* A stored balance above the salary and another within it, both of which *)
(* a rollover on the 1st would change.                                    *)
C16_Witness ==
    /\ \E id \in DOMAIN employees :
          employees[id].used_salary > employees[id].salary
    /\ \E id \in DOMAIN employees :
          /\ employees[id].used_salary > 0
          /\ employees[id].used_salary <= employees[id].salary
    /\ \E t \in Times :
          reset_monthly_salary_for_new_month(2, t).employees = employees

(* C17: the rollover invoked on the 1st sets used_salary to               *)
(* used_salary - salary where used_salary > salary (carried_forward), to  *)
(* 0 where 0 < used_salary <= salary (reset_to_zero), and leaves it where *)
(* it is 0; reset_count = carried_forward + reset_to_zero = the number of *)
(* employees whose used_salary changed.                                   *)
C17_RolloverOnTheFirst ==
    \A t \in Times :
        LET r == reset_monthly_salary_for_new_month(1, t)
            carried == {id \in DOMAIN employees :
                           employees[id].used_salary > employees[id].salary}
            zeroed == {id \in DOMAIN employees :
                          /\ employees[id].used_salary > 0
                          /\ employees[id].used_salary <= employees[id].salary}
            changed == {id \in DOMAIN employees :
                           r.employees[id].used_salary
                              # employees[id].used_salary}
        IN /\ r.resp.err = "ok"
           /\ DOMAIN r.employees = DOMAIN employees
           /\ \A id \in DOMAIN employees :
                 r.employees[id].used_salary =
                    IF id \in carried
                    THEN employees[id].used_salary - employees[id].salary
                    ELSE IF id \in zeroed THEN 0
                    ELSE employees[id].used_salary
           /\ r.out.carried_forward = Cardinality(carried)
           /\ r.out.reset_to_zero = Cardinality(zeroed)
           /\ r.out.reset_count = Cardinality(carried) + Cardinality(zeroed)
           /\ r.out.reset_count = Cardinality(changed)

(* A rollover on the 1st has carried one employee's debt (the stored      *)
(* balance is the part of its ledger total above the salary) while        *)
(* another employee's balance within the salary is still to be zeroed.    *)
C17_Witness ==
    \E a \in DOMAIN employees, b \in DOMAIN employees :
        /\ a # b
        /\ employees[a].used_salary > 0
        /\ employees[a].used_salary
              = calculate_used_salary_from_transactions(a) - employees[a].salary
        /\ employees[b].used_salary > 0
        /\ employees[b].used_salary <= employees[b].salary

----------------------------------------------------------------------------
(* Creation properties *)

Rejected(r) == r.resp.err # "ok" /\ r.advances = advances

(* C19: creating an advance is rejected with an error and adds no Advance *)
(* row whenever the employee's remaining salary (salary - bills -         *)
(* approved advances) is <= 0 or the positive requested amount exceeds    *)
(* it, through create_advance (main.py) and through request_advance       *)
(* (advance_service.py); so no such request becomes a pending advance.    *)
C19_OverdrawingRequestRejected ==
    \A e \in DOMAIN employees, amount \in Amounts :
        LET remaining == employees[e].salary - LedgerUsed(e)
        IN (remaining <= 0 \/ amount > remaining) =>
              /\ Rejected(create_advance(e, amount))
              /\ Rejected(request_advance(e, amount))

(* The recorder may bill the employee: both exist, the recorder is a      *)
(* manager or an admin, and a manager does not bill themselves.           *)
MayBill(m, e) ==
    /\ employees[m].role \in {"manager", "admin"}
    /\ ~(employees[m].role = "manager" /\ m = e)

(* C20: create_bill is never refused because of overdraft: for a valid    *)
(* recorder and billed employee the bill is always persisted, whatever    *)
(* the ledger, and the response carries a warning iff                     *)
(* base salary - (previous used + bill amount) < 0.                       *)
C20_BillNeverRefusedForOverdraft ==
    \A m \in DOMAIN employees, e \in DOMAIN employees, amount \in Amounts :
        MayBill(m, e) =>
            LET r == create_bill(m, e, amount)
            IN /\ r.resp.err = "ok"
               /\ Len(r.bills) = Len(bills) + 1
               /\ SubSeq(r.bills, 1, Len(bills)) = bills
               /\ r.bills[Len(r.bills)].billed_employee_id = e
               /\ r.bills[Len(r.bills)].amount_billed = amount
               /\ r.advances = advances /\ r.employees = employees
               /\ r.out.warning
                     <=> employees[e].salary - (LedgerUsed(e) + amount) < 0

(* A bill has been persisted that takes its employee's used salary above  *)
(* the salary, and a further bill would be accepted with the warning.     *)
C20_Witness ==
    \E k \in DOMAIN bills :
        LET e == bills[k].billed_employee_id
        IN /\ LedgerUsed(e) > employees[e].salary
           /\ LedgerUsed(e) - bills[k].amount_billed <= employees[e].salary
           /\ create_bill(AdminId, e, 1).out.warning

(* C21: create_bill fails and persists no Bill row when the recorder does *)
(* not exist, when the recorder's role is not manager or admin, when the  *)
(* billed employee does not exist, or when a manager bills themselves; an *)
(* admin may bill any employee, themselves included.                      *)
C21_BillValidation ==
    \A m \in AnyEmployeeId, e \in AnyEmployeeId, amount \in Amounts :
        LET r == create_bill(m, e, amount)
        IN /\ (\/ ~Exists(m)
               \/ ~Exists(e)
               \/ employees[m].role \notin {"manager", "admin"}
               \/ (employees[m].role = "manager" /\ m = e))
              => /\ r.resp.err # "ok"
                 /\ r.bills = bills
                 /\ r.employees = employees /\ r.advances = advances
           /\ (IsAdmin(m) /\ Exists(e))
              => /\ r.resp.err = "ok"
                 /\ r.bills = Append(bills, [billed_employee_id |-> e,
                                             amount_billed |-> amount,
                                             recorded_by_id |-> m])

(* An admin has billed themselves, and a manager asking the same for      *)
(* themselves is turned away.                                             *)
C21_Witness ==
    /\ \E k \in DOMAIN bills :
          /\ bills[k].recorded_by_id = bills[k].billed_employee_id
          /\ IsAdmin(bills[k].recorded_by_id)
    /\ \E m \in DOMAIN employees :
          /\ employees[m].role = "manager"
          /\ create_bill(m, m, 1).resp.err = "BadRequest"

----------------------------------------------------------------------------
(* Decision properties *)

(* PUT /api/advances/{id}/approve sent by `actor`: the request carries no *)
(* caller identity (path id, approved, notes) and no dependency of the    *)
(* handler resolves one, so the handler runs the same for every actor.    *)
HttpApproveBy(actor, advance_id, approved, notes, t) ==
    http_approve_advance(advance_id, approved, notes, t)

StillPending(r, i) ==
    /\ r.resp.err # "ok"
    /\ r.advances[i].status = "pending"

(* C22: an advance leaves the pending state only by a decision of an      *)
(* employee with the admin role: a decide attempt by a non-admin or       *)
(* unknown actor fails with a permission or not-found error and leaves    *)
(* the advance pending, on the HTTP path and on the service path.         *)
C22_OnlyAdminsDecide ==
    \A i \in DOMAIN advances, actor \in AnyEmployeeId, ok \in BOOLEAN,
       n \in NotesInputs, t \in Times :
        (Pending(i) /\ ~IsAdmin(actor)) =>
            /\ StillPending(service_approve_advance(i, actor, ok, n, t), i)
            /\ StillPending(HttpApproveBy(actor, i, ok, n, t), i)

----------------------------------------------------------------------------
(* Daily job properties *)

(* C23: when the daily job runs on the 1st of a month (attendance reset   *)
(* and salary rollover first, then the sweep), after the job every        *)
(* employee who has started and has no approved off-day covering that day *)
(* has days_worked_this_month = 1 and total_days_worked exactly one       *)
(* higher than before the job.                                            *)
C23_JobOnTheFirstCountsEveryone ==
    (job.pc = "done" /\ Day(job.date) = 1) =>
        \A e \in DOMAIN employees :
            (Started(e, job.date) /\ ~Covered(e, job.date)) =>
                /\ employees[e].days_worked_this_month = 1
                /\ employees[e].total_days_worked
                      = job.before[e].total_days_worked + 1

----------------------------------------------------------------------------
(* Off-day decisions *)

OffDayDecided(i) == OffDayExists(i) /\ off_days[i].status # "pending"

OffDayDecisionOutcome ==
    \A i \in AnyOffDayId, ok \in BOOLEAN :
        LET r == approve_off_day(i, ok)
        IN /\ ~OffDayExists(i) =>
                /\ r.resp.err = "NotFound"
                /\ r.off_days = off_days
           /\ OffDayDecided(i) =>
                /\ r.resp.err = "BadRequest"
                /\ r.resp.detail = <<"Off day is already", off_days[i].status>>
                /\ r.off_days = off_days
           /\ (OffDayExists(i) /\ ~OffDayDecided(i)) =>
                /\ r.resp.err = "ok"
                /\ r.off_days =
                      [off_days EXCEPT
                          ![i].status = IF ok THEN "approved" ELSE "denied"]

(* C24: an off-day's status is terminal once decided: approve_off_day on  *)
(* an off-day that is not pending fails with 'already <status>' and       *)
(* leaves the status as it is, an unknown id gets a not-found error, and  *)
(* the only status changes are pending to approved and pending to denied. *)
C24_OffDayStatusTerminal ==
    /\ []OffDayDecisionOutcome
    /\ [][\A i \in DOMAIN off_days :
            /\ i \in DOMAIN off_days'
            /\ off_days'[i].status # off_days[i].status =>
                  /\ off_days[i].status = "pending"
                  /\ off_days'[i].status \in {"approved", "denied"}]_vars

C24_Witness ==
    \E i \in DOMAIN off_days, j \in DOMAIN off_days :
        /\ off_days[i].status = "approved"
        /\ off_days[j].status = "denied"
        /\ approve_off_day(i, FALSE).resp.err = "BadRequest"
        /\ approve_off_day(j, TRUE).off_days = off_days

----------------------------------------------------------------------------
(* Concurrent decisions *)

(* C25: when two decide requests run concurrently on the same pending     *)
(* advance, the status is written at most once: a request writes only a   *)
(* status that is still pending (so exactly one of them succeeds), and a  *)
(* decided advance never goes from approved to denied or from denied to   *)
(* approved.                                                              *)
C25_StatusWrittenOnce ==
    [][/\ \A r \in Requests :
            (reqs[r].pc = "decide" /\ reqs'[r].pc = "idle") =>
                advances[reqs[r].advance_id].status = "pending"
       /\ \A i \in DOMAIN advances :
            advances[i].status # "pending" =>
                advances'[i].status = advances[i].status]_vars

----------------------------------------------------------------------------
(* Rollover and settlement over time *)

(* C26: the rollover is idempotent within one month boundary: right after *)
(* reset_monthly_salary_for_new_month has run on a 1st, running it again  *)
(* for the same 1st leaves every employee's used_salary as the first run  *)
(* left it and reports zero counts.                                       *)
C26_RolloverTwiceIsOnce ==
    [][\A t \in Times :
          ResetMonthlySalary(1, t) =>
             (\A t2 \in Times :
                 LET second == reset_monthly_salary_for_new_month(1, t2)
                 IN /\ second.out = NoStats
                    /\ \A id \in DOMAIN employees :
                          second.employees[id].used_salary
                             = employees[id].used_salary)']_vars

(* C27: a settlement is durable: right after record_salary_payment has    *)
(* set an employee's used_salary to 0, with no new bill and no newly      *)
(* approved advance, the stored used_salary is 0, a call of               *)
(* update_employee_used_salary leaves it at 0, and the remaining salary   *)
(* that create_advance and approve_advance compute is the full base       *)
(* salary.                                                                *)
C27_SettlementIsDurable ==
    [][\A e \in DOMAIN employees, adm \in AnyEmployeeId, p \in PaidInputs, t \in Times :
          (RecordSalaryPayment(e, adm, p, t, TRUE) /\ payments' # payments) =>
             (/\ employees[e].used_salary = 0
              /\ \A t2 \in Times :
                    update_employee_used_salary(e, t2).employees[e].used_salary
                       = 0
              /\ calculate_remaining_salary(e) = employees[e].salary)']_vars

----------------------------------------------------------------------------
(* The approval checks *)

----------------------------------------------------------------------------
(* The sweep *)

(* C29: a write to an employee row that has nothing to do with attendance *)
(* (record_salary_payment, update_employee_used_salary) made on a date    *)
(* before that date's sweep does not keep the date from being counted:    *)
(* whatever happened before, a sweep for the date leaves every started    *)
(* employee without an approved off-day covering it counted exactly once  *)
(* for the date, adding one to total_days_worked unless the date was      *)
(* counted already.                                                       *)
C29_SweepCountsDespiteOtherWrites ==
    [][UpdateAllEmployeesAttendance(today, TRUE) =>
          \A e \in DOMAIN employees :
             (Started(e, today) /\ ~Covered(e, today)) =>
                employees'[e].total_days_worked =
                   IF last_counted[e] = today
                   THEN employees[e].total_days_worked
                   ELSE employees[e].total_days_worked + 1]_vars

(* C30: for every date and every employee state, the statistics returned  *)
(* by update_all_employees_attendance partition the processed employees:  *)
(* total_employees is the number of employees whose employment_start_date *)
(* is on or before the date, updated + off_days + already_counted +       *)
(* not_started equals total_employees, not_started is 0, and updated is   *)
(* the number of employees whose total_days_worked went up by one during  *)
(* the call.                                                              *)
C30_SweepStatsPartition ==
    \A d \in Dates :
        LET r == update_all_employees_attendance(d, today)
            raised == {id \in DOMAIN employees :
                          r.employees[id].total_days_worked
                             = employees[id].total_days_worked + 1}
        IN /\ r.resp.err = "ok"
           /\ r.out.total_employees =
                 Cardinality({id \in DOMAIN employees :
                                 employees[id].employment_start_date <= d})
           /\ r.out.updated + r.out.off_days + r.out.already_counted
                 + r.out.not_started = r.out.total_employees
           /\ r.out.not_started = 0
           /\ r.out.updated = Cardinality(raised)
           /\ \A id \in DOMAIN employees \ raised :
                 r.employees[id].total_days_worked
                    = employees[id].total_days_worked

(* After earlier counting, a sweep for some date would count one          *)
(* employee, find another on an approved off-day, and leave out the one   *)
(* who has not started.                                                   *)
C30_Witness ==
    /\ \E id \in DOMAIN employees : employees[id].total_days_worked > 0
    /\ \E d \in Dates :
          LET r == update_all_employees_attendance(d, today)
          IN /\ r.out.updated = 1
             /\ r.out.off_days = 1
             /\ r.out.total_employees = 2
             /\ r.out.total_employees < Len(employees)

====
